---- MODULE Spec2Model ----
(***************************************************************************)
(* Model of solar_assistant.py: SolarAssistant (construction, request      *)
(* building, response classification, error normalisation), the            *)
(* synchronous wrapper get_response, and main()'s start-up sequence.       *)
(*                                                                         *)
(* Python values are records [t, v]: t is the Python type, v the payload.  *)
(* Text is a TLA+ string, so concatenation, prefixes and substrings are    *)
(* computed, a dict is a function from its keys and a list is a sequence.  *)
(***************************************************************************)
EXTENDS Integers, Sequences, FiniteSets, TLC

(***************************************************************************)
(* Bounds of the model.                                                    *)
(***************************************************************************)
NumCallers == 2      \* simultaneous users of the form
MaxChoices == 2      \* longest "choices" list the upstream sends
TickSeconds == 10    \* seconds that pass in one step of the clock

Callers == 1..NumCallers

(***************************************************************************)
(* Python values.                                                          *)
(***************************************************************************)
PyNone == [t |-> "NoneType", v |-> "None"]
PyStr(s) == [t |-> "str", v |-> s]
PyInt(digits) == [t |-> "int", v |-> digits]
PyList(seq) == [t |-> "list", v |-> seq]
PyDict(f) == [t |-> "dict", v |-> f]
EmptyDict == PyDict(<<>>)

\* A body that is not JSON at all (an HTML error page, an empty body).
NotJson == [t |-> "raw", v |-> "<html>Bad Gateway</html>"]

\* Evaluation results: a value, or a raised exception.
Ok(x) == [ok |-> TRUE, val |-> x]
Raise(cls, msg) == [ok |-> FALSE, val |-> [cls |-> cls, msg |-> msg]]

IsSubstring(sub, s) ==
    \E i \in 1..(Len(s) - Len(sub) + 1) : SubSeq(s, i, i + Len(sub) - 1) = sub

StartsWith(s, prefix) ==
    /\ Len(s) >= Len(prefix)
    /\ SubSeq(s, 1, Len(prefix)) = prefix

\* key in x
PyIn(key, x) ==
    CASE x.t = "dict" -> Ok(key \in DOMAIN x.v)
      [] x.t = "list" -> Ok(\E i \in DOMAIN x.v : x.v[i] = PyStr(key))
      [] x.t = "str" -> Ok(IsSubstring(key, x.v))
      [] OTHER -> Raise("TypeError", "argument of type '" \o x.t \o "' is not iterable")

\* x[key] with a str key
PyGetItem(x, key) ==
    CASE x.t = "dict" ->
            IF key \in DOMAIN x.v THEN Ok(x.v[key])
            ELSE Raise("KeyError", "'" \o key \o "'")
      [] x.t = "list" ->
            Raise("TypeError", "list indices must be integers or slices, not str")
      [] x.t = "str" ->
            Raise("TypeError", "string indices must be integers, not 'str'")
      [] OTHER -> Raise("TypeError", "'" \o x.t \o "' object is not subscriptable")

\* x[-1]: the last element where the code takes the first.
PyLast(x) ==
    CASE x.t = "list" ->
            IF Len(x.v) > 0 THEN Ok(x.v[Len(x.v)])
            ELSE Raise("IndexError", "list index out of range")
      [] x.t = "str" ->
            IF Len(x.v) > 0 THEN Ok(PyStr(SubSeq(x.v, Len(x.v), Len(x.v))))
            ELSE Raise("IndexError", "string index out of range")
      [] x.t = "dict" -> Raise("KeyError", "-1")
      [] OTHER -> Raise("TypeError", "'" \o x.t \o "' object is not subscriptable")

\* x[0]
PyFirst(x) ==
    CASE x.t = "list" ->
            IF Len(x.v) > 0 THEN Ok(x.v[1])
            ELSE Raise("IndexError", "list index out of range")
      [] x.t = "str" ->
            IF Len(x.v) > 0 THEN Ok(PyStr(SubSeq(x.v, 1, 1)))
            ELSE Raise("IndexError", "string index out of range")
      [] x.t = "dict" -> Raise("KeyError", "0")
      [] OTHER -> Raise("TypeError", "'" \o x.t \o "' object is not subscriptable")

\* len(x)
PyLen(x) ==
    CASE x.t = "list" -> Ok(Len(x.v))
      [] x.t = "str" -> Ok(Len(x.v))
      [] x.t = "dict" -> Ok(Cardinality(DOMAIN x.v))
      [] OTHER -> Raise("TypeError", "object of type '" \o x.t \o "' has no len()")

\* x.get(key, default)
PyGet(x, key, default) ==
    IF x.t = "dict"
    THEN Ok(IF key \in DOMAIN x.v THEN x.v[key] ELSE default)
    ELSE Raise("AttributeError", "'" \o x.t \o "' object has no attribute 'get'")

\* str(x), as an f-string field renders it
PyFormat(x) ==
    CASE x.t \in {"str", "int", "NoneType"} -> x.v
      [] x.t = "dict" -> IF DOMAIN x.v = {} THEN "{}" ELSE "{...}"
      [] x.t = "list" -> IF Len(x.v) = 0 THEN "[]" ELSE "[...]"
      [] OTHER -> x.v

\* x is None: the test that lets an empty string through.
PyIsNone(x) == x.t = "NoneType"

\* not x
PyNot(x) ==
    CASE x.t = "NoneType" -> TRUE
      [] x.t = "str" -> x.v = ""
      [] x.t = "int" -> x.v = "0"
      [] x.t = "list" -> Len(x.v) = 0
      [] x.t = "dict" -> DOMAIN x.v = {}
      [] OTHER -> FALSE

(***************************************************************************)
(* SolarAssistant: the request.                                            *)
(***************************************************************************)
API_BASE == "https://openrouter.ai/api/v1"
MODEL == "mistralai/mistral-7b-instruct"
TEMPERATURE == "0.7"
MAX_TOKENS == 500
TIMEOUT == 30

_generate_system_prompt ==
    "You are a specialized solar industry consultant AI assistant. Provide accurate, practical advice while adapting your responses to the user's technical expertise level."

\* The POST that _async_get_response hands to client.post.
BuildRequest(key, query, user_expertise) ==
    [method |-> "POST",
     url |-> API_BASE \o "/chat/completions",
     headers |-> [Authorization |-> "Bearer " \o PyFormat(key),
                  ContentType |-> "application/json",
                  HTTPReferer |-> "https://localhost:7860"],
     json |-> [model |-> MODEL,
               messages |-> <<[role |-> "system", content |-> _generate_system_prompt],
                              [role |-> "user",
                               content |-> "User expertise level: " \o user_expertise
                                           \o "\nQuery: " \o query]>>,
               temperature |-> TEMPERATURE,
               max_tokens |-> MAX_TOKENS],
     timeout |-> TIMEOUT]

(***************************************************************************)
(* SolarAssistant: what _async_get_response returns.                       *)
(* site names the return statement taken; val is the returned value.       *)
(***************************************************************************)
Returned(site, x) == [site |-> site, val |-> x]

AnswerSites == {"content", "text"}
FailureSites == {"api_error", "format_error", "except"}

FORMAT_ERROR == "Error: Unexpected response format from API"

\* Classes the clause "except Exception" catches.
ExceptionClasses ==
    {"TypeError", "AttributeError", "KeyError", "IndexError", "JSONDecodeError",
     "ConnectError", "ReadTimeout"}

\* except httpx.HTTPError as e: a handler that lets the other classes escape.
ExceptHttpErrorOnly(e) ==
    IF e.cls \in {"ConnectError", "ReadTimeout"}
    THEN Returned("except", PyStr("An error occurred: " \o e.msg))
    ELSE Returned("raised", PyStr(e.msg))

\* except Exception as e: return f"An error occurred: {str(e)}"
ExceptHandler(e) ==
    IF e.cls \in ExceptionClasses
    THEN Returned("except", PyStr("An error occurred: " \o e.msg))
    ELSE Returned("raised", PyStr(e.msg))

\* if 'error' in response_data: ... return f"API error: {error_msg}"
ErrorBranch(response_data) ==
    LET err == PyGetItem(response_data, "error") IN
    IF ~err.ok THEN err
    ELSE LET error_msg == PyGet(err.val, "message", PyStr("Unknown error")) IN
         IF ~error_msg.ok THEN error_msg
         ELSE Ok(Returned("api_error", PyStr("API error: " \o PyFormat(error_msg.val))))

\* if 'message' in choice and 'content' in choice['message']: ... elif 'text' in choice: ...
ChoiceBranch(choice) ==
    LET hasMessage == PyIn("message", choice) IN
    IF ~hasMessage.ok THEN hasMessage
    ELSE LET message == IF hasMessage.val THEN PyGetItem(choice, "message") ELSE Ok(PyNone)
             hasContent == IF hasMessage.val /\ message.ok
                           THEN PyIn("content", message.val) ELSE Ok(FALSE)
         IN
         IF ~message.ok THEN message
         ELSE IF ~hasContent.ok THEN hasContent
         ELSE IF hasContent.val
         THEN LET content == PyGetItem(message.val, "content") IN
              IF ~content.ok THEN content ELSE Ok(Returned("content", content.val))
         ELSE LET hasText == PyIn("text", choice) IN
              IF ~hasText.ok THEN hasText
              ELSE IF hasText.val
              THEN LET text == PyGetItem(choice, "text") IN
                   IF ~text.ok THEN text ELSE Ok(Returned("text", text.val))
              ELSE Ok(Returned("format_error", PyStr(FORMAT_ERROR)))

\* if 'choices' in response_data and len(response_data['choices']) > 0: ...
\* return "Error: Unexpected response format from API"
ChoicesBranch(response_data) ==
    LET hasChoices == PyIn("choices", response_data) IN
    IF ~hasChoices.ok THEN hasChoices
    ELSE IF ~hasChoices.val THEN Ok(Returned("format_error", PyStr(FORMAT_ERROR)))
    ELSE LET choices == PyGetItem(response_data, "choices") IN
         IF ~choices.ok THEN choices
         ELSE LET n == PyLen(choices.val) IN
              IF ~n.ok THEN n
              ELSE IF ~(n.val > 0) THEN Ok(Returned("format_error", PyStr(FORMAT_ERROR)))
              ELSE LET choice == PyFirst(choices.val) IN
                   IF ~choice.ok THEN choice ELSE ChoiceBranch(choice.val)

\* The statements after response.json(), inside the try block.
ClassifyBody(response_data) ==
    LET hasError == PyIn("error", response_data) IN
    IF ~hasError.ok THEN hasError
    ELSE IF hasError.val THEN ErrorBranch(response_data)
    ELSE ChoicesBranch(response_data)

\* response.json()
ResponseJson(body) ==
    IF body.t = "raw"
    THEN Raise("JSONDecodeError", "Expecting value: line 1 column 1 (char 0)")
    ELSE Ok(body)

\* What "await client.post(...)" produces for each thing the transport can do.
AwaitPost(response) ==
    CASE response.kind = "http" -> Ok(response.body)
      [] response.kind = "connect_error" ->
            Raise("ConnectError", "All connection attempts failed")
      [] response.kind = "timeout" -> Raise("ReadTimeout", "")

\* _async_get_response from the point where client.post completes.
HandleResponse(response) ==
    LET posted == AwaitPost(response) IN
    IF ~posted.ok THEN ExceptHandler(posted.val)
    ELSE LET response_data == ResponseJson(posted.val) IN
         IF ~response_data.ok THEN ExceptHandler(response_data.val)
         ELSE LET out == ClassifyBody(response_data.val) IN
              IF ~out.ok THEN ExceptHandler(out.val) ELSE out.val

(***************************************************************************)
(* What the upstream can send: JSON documents of every shape the           *)
(* classification inspects, bodies that are not JSON, and transport errors.*)
(***************************************************************************)
\* The dicts over one key or two, each key present or absent, each value
\* drawn from the key's own set.
DictsOver1(k, V) == {EmptyDict} \cup {PyDict([x \in {k} |-> v]) : v \in V}

DictsOver2(k1, V1, k2, V2) ==
    DictsOver1(k1, V1) \cup DictsOver1(k2, V2)
        \cup {PyDict([x \in {k1, k2} |-> IF x = k1 THEN v1 ELSE v2]) : v1 \in V1, v2 \in V2}

SeqsUpTo(S, n) == UNION {[1..k -> S] : k \in 0..n}

ContentValues == {PyStr("X"), PyNone}
TextValues == {PyStr("Y")}
MessageValues ==
    DictsOver1("content", ContentValues) \cup {PyNone, PyStr("content")}
ChoiceValues ==
    DictsOver2("message", MessageValues, "text", TextValues)
        \cup {PyNone, PyStr("message")}
ChoicesValues ==
    {PyList(s) : s \in SeqsUpTo(ChoiceValues, MaxChoices)}
        \cup {PyNone, PyStr("choices"), EmptyDict}
ErrorMessageValues == {PyStr("bad key"), PyNone}
ErrorValues ==
    DictsOver1("message", ErrorMessageValues) \cup {PyNone, PyStr("bad key")}

JsonBodies ==
    DictsOver2("error", ErrorValues, "choices", ChoicesValues)
        \cup {PyNone, PyInt("42"), PyStr("error"), PyStr("ok"),
              PyList(<<>>), PyList(<<PyStr("error")>>)}

\* The bodies used where several callers run at once.
SampleBodies ==
    {PyDict([choices |-> PyList(<<PyDict([message |-> PyDict([content |-> PyStr("X")])])>>)]),
     PyDict([choices |-> PyList(<<PyDict([text |-> PyStr("Y")])>>)]),
     PyDict([error |-> PyDict([message |-> PyStr("bad key")])]),
     EmptyDict}

HttpResponse(body) == [kind |-> "http", body |-> body]
ConnectError == [kind |-> "connect_error", body |-> PyNone]
TimedOut == [kind |-> "timeout", body |-> PyNone]
NoResponse == [kind |-> "none", body |-> PyNone]

Queries == {"ROI of a 10kW system?", "PERC efficiency?"}
ExpertiseLevels == {"general", "guru"}
EnvValues == {PyNone, PyStr(""), PyStr("sk-or-v1-key")}

NoRequest == [method |-> "none"]
NoResult == Returned("none", PyNone)

(***************************************************************************)
(* State.                                                                  *)
(***************************************************************************)
VARIABLES
    env,         \* OPENROUTER_API_KEY after load_dotenv()
    main_pc,     \* where main() is
    api_key,     \* SolarAssistant.api_key
    pc,          \* per caller: where its get_response call is
    query,       \* per caller: the question in the form
    expertise,   \* per caller: the expertise level in the form
    request,     \* per caller: the POST in flight on the call's own client
    response,    \* per caller: what that client received
    elapsed,     \* per caller: seconds the pending POST has waited
    posts,       \* per caller: POSTs issued by the current invocation
    result       \* per caller: what get_response returned

vars == <<env, main_pc, api_key, pc, query, expertise, request, response,
          elapsed, posts, result>>

assistant_vars == <<env, main_pc, api_key>>
call_vars == <<pc, query, expertise, request, response, elapsed, posts, result>>

Init ==
    /\ env \in EnvValues
    /\ main_pc = "start"
    /\ api_key = PyNone
    /\ pc = [c \in Callers |-> "idle"]
    /\ query = [c \in Callers |-> ""]
    /\ expertise = [c \in Callers |-> "general"]
    /\ request = [c \in Callers |-> NoRequest]
    /\ response = [c \in Callers |-> NoResponse]
    /\ elapsed = [c \in Callers |-> 0]
    /\ posts = [c \in Callers |-> 0]
    /\ result = [c \in Callers |-> NoResult]

(***************************************************************************)
(* main(): SolarAssistantUI() -> create_interface() -> launch().           *)
(***************************************************************************)
\* SolarAssistant.__init__, reached through SolarAssistantUI.__init__.
SolarAssistantInit ==
    /\ main_pc = "start"
    /\ api_key' = env
    /\ main_pc' = IF PyNot(env) THEN "ValueError" ELSE "constructed"
    /\ UNCHANGED <<env, call_vars>>

create_interface ==
    /\ main_pc = "constructed"
    /\ main_pc' = "interface"
    /\ UNCHANGED <<env, api_key, call_vars>>

launch ==
    /\ main_pc = "interface"
    /\ main_pc' = "launched"
    /\ UNCHANGED <<env, api_key, call_vars>>

(***************************************************************************)
(* get_response / _async_get_response, one call per caller at a time.      *)
(***************************************************************************)
\* One slot for every call, as if the response were kept on the assistant.
SharedSlot(c) == 1

\* The slot a call's "response" lives in: a local of the call's own coroutine.
ResponseSlot(c) == c

\* get_response up to the point where client.post is awaiting the upstream.
get_response(c, q, user_expertise) ==
    /\ main_pc = "launched"
    /\ pc[c] \in {"idle", "done"}
    /\ query' = [query EXCEPT ![c] = q]
    /\ expertise' = [expertise EXCEPT ![c] = user_expertise]
    /\ request' = [request EXCEPT ![c] = BuildRequest(api_key, q, user_expertise)]
    /\ posts' = [posts EXCEPT ![c] = 1]
    /\ response' = [response EXCEPT ![ResponseSlot(c)] = NoResponse]
    /\ elapsed' = [elapsed EXCEPT ![c] = 0]
    /\ result' = [result EXCEPT ![c] = NoResult]
    /\ pc' = [pc EXCEPT ![c] = "awaiting"]
    /\ UNCHANGED assistant_vars

\* The call's POST is pending and its timeout has not run out.
Pending(c) ==
    /\ pc[c] = "awaiting"
    /\ response[ResponseSlot(c)] = NoResponse
    /\ elapsed[c] < request[c].timeout

\* The wait of the pending POST grows.
Tick(c) ==
    /\ Pending(c)
    /\ elapsed' = [elapsed EXCEPT ![c] =
                      IF elapsed[c] + TickSeconds < request[c].timeout
                      THEN elapsed[c] + TickSeconds ELSE request[c].timeout]
    /\ UNCHANGED <<assistant_vars, pc, query, expertise, request, response, posts,
                   result>>

\* Something reaches the call's client before the timeout: r.
Deliver(c, r) ==
    /\ response' = [response EXCEPT ![ResponseSlot(c)] = r]
    /\ elapsed' = [elapsed EXCEPT ![c] = 0]
    /\ UNCHANGED <<assistant_vars, pc, query, expertise, request, posts, result>>

\* The upstream answers the caller's request with a body, JSON or not.
UpstreamAnswers(c, bodies) ==
    /\ Pending(c)
    /\ \E b \in bodies \cup {NotJson} : Deliver(c, HttpResponse(b))

\* The connection fails.
ConnectionFails(c) ==
    /\ Pending(c)
    /\ Deliver(c, ConnectError)

\* The call finishes: the rest of _async_get_response, then get_response's
\* return and loop.close().
Finish(c, r) ==
    /\ result' = [result EXCEPT ![c] = HandleResponse(r)]
    /\ request' = [request EXCEPT ![c] = NoRequest]
    /\ elapsed' = [elapsed EXCEPT ![c] = 0]
    /\ pc' = [pc EXCEPT ![c] = "done"]

\* client.post returns or raises; the coroutine resumes.
Resume(c) ==
    /\ pc[c] = "awaiting"
    /\ response[ResponseSlot(c)] # NoResponse
    /\ Finish(c, response[ResponseSlot(c)])
    /\ UNCHANGED <<assistant_vars, query, expertise, response, posts>>

\* A timeout that posts the request once more before it gives up.
TimeoutRetries(c) ==
    /\ pc[c] = "awaiting"
    /\ response[ResponseSlot(c)] = NoResponse
    /\ elapsed[c] >= request[c].timeout
    /\ IF posts[c] < 2
       THEN /\ posts' = [posts EXCEPT ![c] = posts[c] + 1]
            /\ elapsed' = [elapsed EXCEPT ![c] = 0]
            /\ UNCHANGED <<pc, request, response, result>>
       ELSE /\ response' = [response EXCEPT ![ResponseSlot(c)] = TimedOut]
            /\ Finish(c, TimedOut)
            /\ UNCHANGED posts
    /\ UNCHANGED <<assistant_vars, query, expertise>>

\* A client without a timeout: the wait never ends by itself.
TimeoutNever(c) ==
    /\ pc[c] = "awaiting"
    /\ FALSE
    /\ UNCHANGED vars

\* Nothing arrived within the timeout: httpx cancels the request and raises.
TimeoutExpires(c) ==
    /\ pc[c] = "awaiting"
    /\ response[ResponseSlot(c)] = NoResponse
    /\ elapsed[c] >= request[c].timeout
    /\ response' = [response EXCEPT ![ResponseSlot(c)] = TimedOut]
    /\ Finish(c, TimedOut)
    /\ UNCHANGED <<assistant_vars, query, expertise, posts>>

Startup == SolarAssistantInit \/ create_interface \/ launch

CallSteps(c, queries, levels, bodies) ==
    \/ \E q \in queries, e \in levels : get_response(c, q, e)
    \/ Tick(c)
    \/ UpstreamAnswers(c, bodies)
    \/ ConnectionFails(c)
    \/ Resume(c)
    \/ TimeoutExpires(c)

\* The program with several callers at once.
Next == Startup \/ \E c \in Callers : CallSteps(c, Queries, ExpertiseLevels, SampleBodies)

Spec == Init /\ [][Next]_vars

\* One caller, every response shape.
ShapeNext == Startup \/ CallSteps(1, Queries, ExpertiseLevels, JsonBodies)

ShapeSpec == Init /\ [][ShapeNext]_vars

\* Several callers, one form input: whether a call returns does not depend
\* on what was asked.
LiveNext ==
    Startup \/ \E c \in Callers :
                  CallSteps(c, {"PERC efficiency?"}, {"general"}, {EmptyDict})

\* The event loop runs a coroutine that can run, and time passes.
Fairness ==
    \A c \in Callers :
        WF_vars(Tick(c)) /\ WF_vars(Resume(c)) /\ WF_vars(TimeoutExpires(c))

LiveSpec == Init /\ [][LiveNext]_vars /\ Fairness

(***************************************************************************)
(* Vocabulary of the properties.                                           *)
(***************************************************************************)
Done(c) == pc[c] = "done"

\* The call of c is over and the upstream had sent a body that parsed.
Parsed(c) == Done(c) /\ response[c].kind = "http" /\ response[c].body.t # "raw"

HasKey(x, k) == x.t = "dict" /\ k \in DOMAIN x.v

\* The body is a JSON object without an "error" key.
NoErrorIndicator(b) == b.t = "dict" /\ "error" \notin DOMAIN b.v

ChoicesOf(b) ==
    IF HasKey(b, "choices") /\ b.v["choices"].t = "list" THEN b.v["choices"].v ELSE <<>>

ExposesContent(choice) ==
    HasKey(choice, "message") /\ HasKey(choice.v["message"], "content")

ContentOf(choice) == choice.v["message"].v["content"]

ExposesText(choice) == HasKey(choice, "text")

IsAnswer(r) == r.site \in AnswerSites
IsFailure(r) == r.site \in FailureSites

(***************************************************************************)
(* C1: every finished call returned exactly one Outcome, an answer text    *)
(* or a failure message string, and raised nothing.                        *)
(***************************************************************************)
C1_ExactlyOneOutcome ==
    \A c \in Callers :
        Done(c) =>
            /\ IsAnswer(result[c]) # IsFailure(result[c])
            /\ result[c].site # "raised"
            /\ result[c].val.t = "str"

(***************************************************************************)
(* C2: a parsed body with an "error" key yields "API error: <message>",    *)
(* the message being the upstream's, or "Unknown error" when the error     *)
(* indicator carries none.                                                 *)
(***************************************************************************)
C2_ErrorIndicator ==
    \A c \in Callers :
        (Parsed(c) /\ HasKey(response[c].body, "error")) =>
            LET err == response[c].body.v["error"]
                message == IF HasKey(err, "message")
                           THEN PyFormat(err.v["message"]) ELSE "Unknown error"
            IN result[c] = Returned("api_error", PyStr("API error: " \o message))

(***************************************************************************)
(* C3 as stated: no error indicator and at least one choice, anywhere in   *)
(* the list, exposing a message with content yields that content as the    *)
(* answer. (Stated for lists of well-formed choices only: JSON objects     *)
(* whose message, if any, is a JSON object.)                               *)
(***************************************************************************)
WellFormedChoice(choice) ==
    /\ choice.t = "dict"
    /\ "message" \in DOMAIN choice.v => choice.v["message"].t = "dict"

C4_FlatText ==
    \A c \in Callers :
        LET b == response[c].body
            choices == ChoicesOf(b)
        IN /\ (Parsed(c) /\ NoErrorIndicator(b) /\ Len(choices) > 0
                 /\ ExposesText(choices[1])
                 /\ \A i \in DOMAIN choices : ~ExposesContent(choices[i])) =>
                 result[c] = Returned("text", choices[1].v["text"])
           /\ (Parsed(c) /\ result[c].site = "text") =>
                 (Len(choices) > 0 /\ ~ExposesContent(choices[1]))

(***************************************************************************)
(* C5: a parsed body, a JSON object, with no error indicator and no choice  *)
(* exposing message content or flat text (no choices key, an empty list,   *)
(* or choices exposing neither) yields exactly the format-error string.    *)
(***************************************************************************)
C5_FormatError ==
    \A c \in Callers :
        LET b == response[c].body
            choices == ChoicesOf(b)
        IN (Parsed(c) /\ NoErrorIndicator(b)
              /\ \A i \in DOMAIN choices :
                    ~ExposesContent(choices[i]) /\ ~ExposesText(choices[i])) =>
              result[c] = Returned("format_error", PyStr(FORMAT_ERROR))

(***************************************************************************)
(* C6: a connection error, a timeout or a body that is not JSON yields a   *)
(* failure that begins with "An error occurred:" and continues with the    *)
(* error's description; never an answer, an "API error:" string or the     *)
(* format-error string.                                                    *)
(***************************************************************************)
TransportFailure(c) ==
    /\ Done(c)
    /\ \/ response[c].kind \in {"connect_error", "timeout"}
       \/ response[c].kind = "http" /\ response[c].body = NotJson

C6_TransportFailure ==
    \A c \in Callers :
        TransportFailure(c) =>
            /\ IsFailure(result[c]) /\ ~IsAnswer(result[c])
            /\ result[c].val.t = "str"
            /\ StartsWith(result[c].val.v, "An error occurred:")
            /\ \E e \in {AwaitPost(response[c]), ResponseJson(response[c].body)} :
                    ~e.ok /\ result[c].val.v = "An error occurred: " \o e.val.msg
            /\ ~StartsWith(result[c].val.v, "API error:")
            /\ result[c].val.v # FORMAT_ERROR

\* A call whose upstream sent a body that is not JSON has returned.
C6_Witness ==
    \E c \in Callers :
        /\ Done(c) /\ response[c] = HttpResponse(NotJson)
        /\ StartsWith(result[c].val.v, "An error occurred: Expecting value")

(***************************************************************************)
(* C7: an invocation issues exactly one POST to the chat-completions path, *)
(* whatever its outcome; nothing is retried.                               *)
(***************************************************************************)
C7_SinglePost ==
    \A c \in Callers :
        /\ pc[c] = "idle" => posts[c] = 0
        /\ pc[c] \in {"awaiting", "done"} => posts[c] = 1
        /\ pc[c] = "awaiting" =>
              /\ request[c].method = "POST"
              /\ request[c].url = "https://openrouter.ai/api/v1/chat/completions"
        /\ pc[c] = "done" => request[c] = NoRequest

\* A call that timed out has returned its failure after a single POST.
C7_Witness ==
    \E c \in Callers :
        /\ Done(c) /\ response[c] = TimedOut /\ posts[c] = 1
        /\ IsFailure(result[c])

(***************************************************************************)
(* C8: with the credential unset or empty, construction fails: the         *)
(* interface is never built or launched, no call starts and no request is  *)
(* sent; every request in flight carries the credential of construction.   *)
(***************************************************************************)
C8_CredentialRequired ==
    /\ (env = PyNone \/ env = PyStr("")) =>
          /\ main_pc \in {"start", "ValueError"}
          /\ \A c \in Callers : pc[c] = "idle" /\ request[c] = NoRequest /\ posts[c] = 0
    /\ \A c \in Callers :
          request[c] # NoRequest =>
              /\ env.t = "str" /\ env.v # ""
              /\ api_key = env
              /\ request[c].headers.Authorization = "Bearer " \o env.v

\* Construction has failed for want of a credential.
C8_Witness ==
    /\ env = PyStr("")
    /\ main_pc = "ValueError"

(***************************************************************************)
(* C9: under every interleaving a call's request is built from its own     *)
(* caller's inputs and its Outcome is the one its own upstream response    *)
(* determines; the credential never changes after construction.            *)
(***************************************************************************)
Isolated ==
    \A c \in Callers :
        /\ pc[c] = "awaiting" =>
              request[c] = BuildRequest(api_key, query[c], expertise[c])
        /\ pc[c] = "done" =>
              /\ response[c] # NoResponse
              /\ result[c] = HandleResponse(response[c])

C9_Isolation ==
    /\ []Isolated
    /\ [][main_pc # "start" => api_key' = api_key]_vars

\* One caller has its answer while another, who asked something else, holds
\* a different response that it has not yet processed.
C9_Witness ==
    \E c, d \in Callers :
        /\ c # d
        /\ pc[c] = "done" /\ pc[d] = "awaiting"
        /\ response[d] # NoResponse /\ response[d] # response[c]
        /\ query[c] # query[d]
        /\ IsAnswer(result[c])

====
